---- MODULE Spec2Model ----
(***************************************************************************)
(* jumpDB: an LSM key-value store (src/build/lib/jumpDB/jump_db.py).       *)
(*                                                                         *)
(* Keys are strings ordered by <; they are modelled by the integers of     *)
(* Keys.  Values are opaque strings that the engine never inspects (they   *)
(* are only compared against TOMBSTONE, which is a bytes object and so     *)
(* differs from every string); the n-th call writes the value n, so a      *)
(* stale read can never coincide with the expected value.                  *)
(* A segment is identified by its path, i.e. by the timestamp in its file  *)
(* name; in the engine a byte offset in a segment file is modelled by the  *)
(* number of records that precede it, while the Segment object on its own  *)
(* (SpecSegment) keeps byte offsets.                                       *)
(* time.time() is taken to be strictly larger at every segment creation    *)
(* (clock), except in SpecClock, where the system clock can be set back.   *)
(* The Bloom filter is the set of keys added to it: it has no              *)
(* false negatives, and a false positive only sends get down the path it   *)
(* takes for a key that was added and is no longer stored.                 *)
(* A call that raises leaves the engine as it is and is not counted in     *)
(* nops; Reopen discards the engine and constructs a new DB on the same    *)
(* base path (segments are persistent), which starts a new history.        *)
(* The repository also holds an older engine, src/sst_engine/sst_engine.py,*)
(* whose read path on a recovered directory is modelled by the sst_        *)
(* operators.                                                              *)
(***************************************************************************)
EXTENDS Integers, Sequences, FiniteSets, TLC

MaxOps == 5
MaxChainSegments == 3
MaxChainKey == 2
MaxSegmentSize == 3

\* the keys the calls are made with
Keys == 1..3

\* the constructor arguments the engine is started with
MaxInmemorySizes == 1..2
SparseOffsets == 1..2
SegmentSizes == 1..2
MergeThresholds == 1..3

TOMBSTONE == 0
None == -1
NoEntry == <<>>

VARIABLES
    max_inmemory_size,      \* DB.max_inmemory_size
    sparse_offset,          \* DB.sparse_offset
    segment_size,           \* DB._segment_size
    merge_threshold,        \* DB._merge_threshold
    mem_table,              \* DB._mem_table._entries : key -> value or TOMBSTONE
    immutable_segments,     \* DB._immutable_segments : list of segments (timestamps)
    sparse_memory_index,    \* DB._sparse_memory_index : key -> list of KeyDirEntry
    bloom_filter,           \* DB._bloom_filter : set of keys added
    disk,                   \* files under the base path : timestamp -> records
    clock,                  \* time.time() at the next segment creation
    nops,                   \* number of calls that have returned normally
    ref,                    \* plain map replayed over the calls on this DB object
    deleted,                \* keys whose most recent call is a successful delete
    chain,                  \* a call of chain_segments: its arguments and what it yields
    seg                     \* a Segment object used on its own, and its file

vars == <<max_inmemory_size, sparse_offset, segment_size, merge_threshold,
          mem_table, immutable_segments, sparse_memory_index, bloom_filter,
          disk, clock, nops, ref, deleted, chain, seg>>

config == <<max_inmemory_size, sparse_offset, segment_size, merge_threshold>>

\* everything but the Segment object used on its own
not_seg == <<config, mem_table, immutable_segments, sparse_memory_index,
             bloom_filter, disk, clock, nops, ref, deleted, chain>>

EmptyMap == [k \in {} |-> 0]

\* SetItem with a fault: a key that is present keeps its old value
SetItemKeepsOld(d, k, v) ==
    IF k \in DOMAIN d THEN d ELSE d @@ (k :> v)

\* d[k] = v on a dict
SetItem(d, k, v) ==
    IF k \in DOMAIN d THEN [d EXCEPT ![k] = v] ELSE d @@ (k :> v)

RECURSIVE SortedSeq(_)
SortedSeq(S) ==
    IF S = {} THEN <<>>
    ELSE LET m == CHOOSE x \in S : \A y \in S : x <= y
         IN <<m>> \o SortedSeq(S \ {m})

Reverse(s) == [i \in 1..Len(s) |-> s[Len(s) + 1 - i]]

RECURSIVE Concat(_)
Concat(ss) == IF ss = <<>> THEN <<>> ELSE Head(ss) \o Concat(Tail(ss))

(***************************************************************************)
(* MemTable                                                                *)
(***************************************************************************)
capacity_reached(mt, max_size) == Cardinality(DOMAIN mt) >= max_size

\* MemTable.__iter__: the (key, value) pairs in key order
MemTableIter(mt) ==
    LET ks == SortedSeq(DOMAIN mt)
    IN [i \in 1..Len(ks) |-> <<ks[i], mt[ks[i]]>>]

(***************************************************************************)
(* Segment                                                                 *)
(***************************************************************************)
\* Segment.search: linear scan from offset, stops at the first larger key
RECURSIVE search(_, _, _)
search(recs, query, offset) ==
    IF offset >= Len(recs) THEN NoEntry
    ELSE LET entry == recs[offset + 1]
         IN IF entry[1] = query THEN entry
            ELSE IF entry[1] > query THEN NoEntry
            ELSE search(recs, query, offset + 1)

search_entry_in_segment(dsk, segment, key, offset) ==
    search(dsk[segment], key, offset)

(***************************************************************************)
(* chain_segments: k-way merge over a heap of                              *)
(* (key, -timestamp, entry, segment) tuples, one per open segment.         *)
(***************************************************************************)
\* the tuple pushed for the record of `segment` at position pos (0-based)
HeapItem(dsk, segment, pos) ==
    [key |-> dsk[segment][pos + 1][1], negts |-> 0 - segment,
     entry |-> dsk[segment][pos + 1], segment |-> segment]

\* HeapLess with a fault: the timestamp is not negated, the oldest segment first
HeapLessOldestFirst(a, b) ==
    \/ a.key < b.key
    \/ a.key = b.key /\ a.segment < b.segment

\* tuple comparison: key, then -timestamp, then the entry (key, value), then
\* Segment.__lt__ (timestamp)
HeapLess(a, b) ==
    \/ a.key < b.key
    \/ /\ a.key = b.key
       /\ \/ a.negts < b.negts
          \/ /\ a.negts = b.negts
             /\ \/ a.entry[2] < b.entry[2]
                \/ a.entry[2] = b.entry[2] /\ a.segment < b.segment

heappop(heap) == CHOOSE x \in heap : \A y \in heap : ~HeapLess(y, x)

\* IsDuplicate with a fault: no entry is recognised as a duplicate
NeverDuplicate(previous_entry, entry) == FALSE

\* the test for an old, duplicate key
IsDuplicate(previous_entry, entry) ==
    previous_entry # NoEntry /\ entry[1] = previous_entry[1]

\* the body of the while loop; pos[s] is the number of records read from s
RECURSIVE ChainLoop(_, _, _, _, _)
ChainLoop(dsk, heap, pos, previous_entry, out) ==
    IF heap = {} THEN out
    ELSE LET top == heappop(heap)
             s == top.segment
             eof == pos[s] >= Len(dsk[s])
             heap2 == IF eof THEN heap \ {top}
                      ELSE (heap \ {top}) \cup {HeapItem(dsk, s, pos[s])}
             pos2 == IF eof THEN pos ELSE [pos EXCEPT ![s] = @ + 1]
         IN IF IsDuplicate(previous_entry, top.entry)
            THEN ChainLoop(dsk, heap2, pos2, previous_entry, out)
            ELSE ChainLoop(dsk, heap2, pos2, top.entry, Append(out, top.entry))

\* the entries chain_segments yields, in order
chain_segments(dsk, segments) ==
    LET open_segments == {segments[i] : i \in 1..Len(segments)}
        nonempty == {s \in open_segments : Len(dsk[s]) > 0}
        heap == {HeapItem(dsk, s, 0) : s \in nonempty}
        pos == [s \in open_segments |-> IF s \in nonempty THEN 1 ELSE 0]
    IN ChainLoop(dsk, heap, pos, NoEntry, <<>>)

(***************************************************************************)
(* DB.merge: the contents of the files merge_into creates, in creation     *)
(* order.  A new file is created as soon as the current one has reached    *)
(* segment_size records, before it is known whether an entry is left.      *)
(***************************************************************************)
RECURSIVE merge_into(_, _)
merge_into(chain_gen, size) ==
    IF Len(chain_gen) >= size
    THEN <<SubSeq(chain_gen, 1, size)>>
         \o merge_into(SubSeq(chain_gen, size + 1, Len(chain_gen)), size)
    ELSE <<chain_gen>>

\* merge with a fault: merged_segments is returned as appended, the segment
\* created last first
merge_without_reverse(dsk, segments, size, now) ==
    LET created == merge_into(chain_segments(dsk, segments), size)
        n == Len(created)
        kept == {i \in 1..n : Len(created[i]) >= 1}
    IN [files |-> [t \in now..(now + n - 1) |-> created[t - now + 1]],
        merged_segments |-> Reverse(SortedSeq({now + i - 1 : i \in kept})),
        clock |-> now + n]

\* files: the files created (timestamp -> records); merged_segments: the
\* segments with len >= 1, oldest first; clock: the time afterwards
merge(dsk, segments, size, now) ==
    LET created == merge_into(chain_segments(dsk, segments), size)
        n == Len(created)
        kept == {i \in 1..n : Len(created[i]) >= 1}
    IN [files |-> [t \in now..(now + n - 1) |-> created[t - now + 1]],
        merged_segments |-> SortedSeq({now + i - 1 : i \in kept}),
        clock |-> now + n]

(***************************************************************************)
(* Sparse memory index                                                     *)
(***************************************************************************)
KeyDirEntry(offset, segment) == [offset |-> offset, segment |-> segment]

AddKeyDirEntry(smi, key, kd) ==
    IF key \in DOMAIN smi THEN [smi EXCEPT ![key] = Append(@, kd)]
    ELSE smi @@ (key :> <<kd>>)

\* IndexEvery with a fault: the count is tested after it has been incremented
RECURSIVE IndexEveryAfterCount(_, _, _, _)
IndexEveryAfterCount(smi, walk, count, sparse) ==
    IF walk = <<>> THEN smi
    ELSE IndexEveryAfterCount(IF (count + 1) % sparse = 0
                              THEN AddKeyDirEntry(smi, Head(walk)[1], Head(walk)[2])
                              ELSE smi,
                              Tail(walk), count + 1, sparse)

\* appends a locator for every record of `walk` (a sequence of
\* <<key, KeyDirEntry>>) whose running count is a multiple of sparse
RECURSIVE IndexEvery(_, _, _, _)
IndexEvery(smi, walk, count, sparse) ==
    IF walk = <<>> THEN smi
    ELSE IndexEvery(IF count % sparse = 0
                    THEN AddKeyDirEntry(smi, Head(walk)[1], Head(walk)[2])
                    ELSE smi,
                    Tail(walk), count + 1, sparse)

\* Segment.offsets_and_entries of one segment, as <<key, KeyDirEntry>>
OffsetsAndEntries(dsk, segment) ==
    [i \in 1..Len(dsk[segment]) |->
        <<dsk[segment][i][1], KeyDirEntry(i - 1, segment)>>]

\* update_sparse_memory_index with a fault: the count starts anew at every
\* segment
RECURSIVE update_sparse_memory_index_per_segment(_, _, _, _)
update_sparse_memory_index_per_segment(smi, dsk, segments, sparse) ==
    IF segments = <<>> THEN smi
    ELSE update_sparse_memory_index_per_segment(
             IndexEvery(smi, OffsetsAndEntries(dsk, Head(segments)), 0, sparse),
             dsk, Tail(segments), sparse)

\* DB._update_sparse_memory_index: one count over the records of all segments
\* of the list, in list order
update_sparse_memory_index(smi, dsk, segments, sparse) ==
    IndexEvery(smi,
               Concat([i \in 1..Len(segments) |-> OffsetsAndEntries(dsk, segments[i])]),
               0, sparse)

\* update_bloom_filter with a fault: recovery does not rebuild the filter
update_bloom_filter_skipped(bf, dsk, segments) == bf

\* DB._update_bloom_filter: every key of every segment is added
update_bloom_filter(bf, dsk, segments) ==
    bf \cup UNION {{dsk[segments[i]][j][1] : j \in 1..Len(dsk[segments[i]])} :
                    i \in 1..Len(segments)}

(***************************************************************************)
(* DB.get                                                                  *)
(***************************************************************************)
\* searches the segments the locators name, in order, skipping the segments
\* already seen; yields the entry found (or NoEntry) and the segments seen
RECURSIVE SearchLocators(_, _, _, _)
SearchLocators(dsk, locators, item, segments_seen) ==
    IF locators = <<>> THEN [entry |-> NoEntry, segments_seen |-> segments_seen]
    ELSE LET kd == Head(locators)
         IN IF kd.segment \in segments_seen
            THEN SearchLocators(dsk, Tail(locators), item, segments_seen)
            ELSE LET entry == search_entry_in_segment(dsk, kd.segment, item, kd.offset)
                 IN IF entry # NoEntry
                    THEN [entry |-> entry, segments_seen |-> segments_seen]
                    ELSE SearchLocators(dsk, Tail(locators), item,
                                        segments_seen \cup {kd.segment})

\* the locators get visits in its first loop: the indexed keys <= item in
\* descending order, the list of each key from its last element to its first
IndexLocators(smi, item) ==
    LET closest_keys == Reverse(SortedSeq({k \in DOMAIN smi : k <= item}))
    IN Concat([i \in 1..Len(closest_keys) |-> Reverse(smi[closest_keys[i]])])

\* FallbackLocators with a fault: only the newest segment is scanned
FallbackNewestOnly(segments) ==
    IF segments = <<>> THEN <<>>
    ELSE <<[offset |-> 0, segment |-> segments[Len(segments)]]>>

\* the second loop: every segment from the newest to the oldest, from offset 0
FallbackLocators(segments) ==
    LET r == Reverse(segments)
    IN [i \in 1..Len(r) |-> KeyDirEntry(0, r[i])]

get_in(bf, mt, smi, segments, dsk, item) ==
    IF item \notin bf THEN None
    ELSE IF item \in DOMAIN mt
    THEN (IF mt[item] = TOMBSTONE THEN None ELSE mt[item])
    ELSE IF DOMAIN smi = {} THEN None
    ELSE LET first == SearchLocators(dsk, IndexLocators(smi, item), item, {})
         IN IF first.entry # NoEntry THEN first.entry[2]
            ELSE LET second == SearchLocators(dsk, FallbackLocators(segments),
                                              item, first.segments_seen)
                 IN IF second.entry # NoEntry THEN second.entry[2] ELSE None

\* DB.__contains__
contains_in(bf, mt, smi, segments, dsk, item) ==
    IF item \notin bf THEN FALSE
    ELSE get_in(bf, mt, smi, segments, dsk, item) # None

get(item) ==
    get_in(bloom_filter, mem_table, sparse_memory_index, immutable_segments,
           disk, item)

contains(item) ==
    contains_in(bloom_filter, mem_table, sparse_memory_index,
                immutable_segments, disk, item)

(***************************************************************************)
(* DB._write_to_segment                                                    *)
(***************************************************************************)
\* FlushedEntries with a fault: tombstones are written like any other value
FlushedEntriesWithTombstones(mt) == MemTableIter(mt)

\* the records add_entry appends: the memtable entries that are no tombstones
FlushedEntries(mt) == SelectSeq(MemTableIter(mt), LAMBDA e : e[2] # TOMBSTONE)

\* write_to_segment with a fault: the last record does not reach the file
write_to_segment_drops_last(mt, smi, dsk, sparse, now) ==
    LET all == FlushedEntries(mt)
        recs == IF all = <<>> THEN all ELSE SubSeq(all, 1, Len(all) - 1)
        dsk2 == dsk @@ (now :> recs)
    IN [segment |-> now,
        disk |-> dsk2,
        sparse_memory_index |->
            IndexEvery(smi, OffsetsAndEntries(dsk2, now), 0, sparse)]

\* segment: the new segment; disk and sparse_memory_index afterwards
write_to_segment(mt, smi, dsk, sparse, now) ==
    LET recs == FlushedEntries(mt)
        dsk2 == dsk @@ (now :> recs)
    IN [segment |-> now,
        disk |-> dsk2,
        sparse_memory_index |->
            IndexEvery(smi, OffsetsAndEntries(dsk2, now), 0, sparse)]

\* DB._clear_segment_list: every segment of the list is removed from disk
clear_segment_list(dsk, segments) ==
    LET gone == {segments[i] : i \in 1..Len(segments)}
    IN [t \in DOMAIN dsk \ gone |-> dsk[t]]

(***************************************************************************)
(* The Segment object                                                      *)
(*                                                                         *)
(* Here the file is kept line by line and positions are byte offsets.  The *)
(* key n stands for the string of n letters a (so the order of the keys is *)
(* the order of the strings) and the value n for a string of n letters.    *)
(***************************************************************************)
SegmentKeys == 1..3
SegmentValues == 1..2

\* json.dumps({key: value}): the text {"key": "value"}, kept as its single
\* member and its number of characters
dumps(key, value) == [member |-> <<key, value>>, chars |-> key + value + 8]

\* SegmentEntry.from_dict(json.loads(line)).to_pair()
loads(line) == line.member

\* the number of bytes of a line of the file: the text and the line feed
LineBytes(line) == line.chars + 1

\* the byte offset at which line i of the file starts (the size of the file
\* for i = Len(file) + 1)
RECURSIVE StartOfLine(_, _)
StartOfLine(file, i) ==
    IF i <= 1 THEN 0 ELSE StartOfLine(file, i - 1) + LineBytes(file[i - 1])

\* Segment.__init__, the file not yet written
NewSegment ==
    [mode |-> "closed",
     file |-> <<>>,
     pos |-> 0,
     previous_entry_key |-> None,
     size |-> 0,
     entries |-> <<>>,
     offsets |-> <<>>,
     result |-> NoEntry]

\* entering `with segment.open(mode)`: mode w truncates the file
open(s, mode) ==
    IF mode = "w"
    THEN [s EXCEPT !.mode = "w", !.file = <<>>, !.pos = 0,
                   !.entries = <<>>, !.offsets = <<>>]
    ELSE [s EXCEPT !.mode = "r", !.pos = 0]

\* leaving `with segment.open(mode)`
close(s) == [s EXCEPT !.mode = "closed", !.previous_entry_key = None]

\* add_entry with a fault: it returns the position after its write
add_entry_returns_end(s, key, value, value_is_str) ==
    IF ~value_is_str
    THEN [raised |-> "Exception", segment |-> s, pos |-> None]
    ELSE IF s.previous_entry_key # None /\ s.previous_entry_key > key
    THEN [raised |-> "UnsortedEntries", segment |-> s, pos |-> None]
    ELSE [raised |-> "",
          segment |-> [s EXCEPT !.previous_entry_key = key,
                                !.file = Append(@, dumps(key, value)),
                                !.pos = @ + LineBytes(dumps(key, value)),
                                !.size = @ + 1],
          pos |-> s.pos + LineBytes(dumps(key, value))]

\* Segment.add_entry((key, value)) in a write session: what it raises, the
\* segment afterwards, and the position it returns
add_entry(s, key, value, value_is_str) ==
    IF ~value_is_str
    THEN [raised |-> "Exception", segment |-> s, pos |-> None]
    ELSE IF s.previous_entry_key # None /\ s.previous_entry_key > key
    THEN [raised |-> "UnsortedEntries", segment |-> s, pos |-> None]
    ELSE [raised |-> "",
          segment |-> [s EXCEPT !.previous_entry_key = key,
                                !.file = Append(@, dumps(key, value)),
                                !.pos = @ + LineBytes(dumps(key, value)),
                                !.size = @ + 1],
          pos |-> s.pos]

\* Segment.seek(pos)
seek(s, pos) == [s EXCEPT !.pos = pos]

\* Segment.read_entry() in a read session.  The position is the start of a
\* line or the end of the file, since seek is only given offsets that
\* add_entry returned; at the end of the file readline gives the empty
\* string, on which json.loads raises.
read_entry(s) ==
    IF \E i \in 1..Len(s.file) : StartOfLine(s.file, i) = s.pos
    THEN LET i == CHOOSE j \in 1..Len(s.file) : StartOfLine(s.file, j) = s.pos
         IN [raised |-> FALSE,
             entry |-> loads(s.file[i]),
             segment |-> [s EXCEPT !.pos = @ + LineBytes(s.file[i])]]
    ELSE [raised |-> TRUE, entry |-> NoEntry, segment |-> s]

\* Segment.reached_eof(): readline gives the empty string
reached_eof(s) == s.pos >= StartOfLine(s.file, Len(s.file) + 1)

\* the while loop of Segment.search: the entry found (or NoEntry) and the
\* segment, with the position up to which the file has been read
RECURSIVE SearchLoop(_, _)
SearchLoop(s, query) ==
    IF reached_eof(s) THEN [entry |-> NoEntry, segment |-> s]
    ELSE LET r == read_entry(s)
         IN IF r.entry[1] = query THEN [entry |-> r.entry, segment |-> r.segment]
            ELSE IF r.entry[1] > query THEN [entry |-> NoEntry, segment |-> r.segment]
            ELSE SearchLoop(r.segment, query)

\* Segment.search(query, offset) in a read session
SegmentSearch(s, query, offset) == SearchLoop(seek(s, offset), query)

\* the while loop of Segment.search of sst_engine.py: no test for a larger key
RECURSIVE sst_SearchLoop(_, _)
sst_SearchLoop(s, query) ==
    IF reached_eof(s) THEN [entry |-> NoEntry, segment |-> s]
    ELSE LET r == read_entry(s)
         IN IF r.entry[1] = query THEN [entry |-> r.entry, segment |-> r.segment]
            ELSE sst_SearchLoop(r.segment, query)

\* Segment.search(query, offset) of sst_engine.py in a read session
sst_SegmentSearch(s, query, offset) == sst_SearchLoop(seek(s, offset), query)

(***************************************************************************)
(* The engine                                                              *)
(***************************************************************************)
\* the fields of the DB object and the files under its base path
db_state ==
    [mem_table |-> mem_table,
     immutable_segments |-> immutable_segments,
     sparse_memory_index |-> sparse_memory_index,
     bloom_filter |-> bloom_filter,
     disk |-> disk,
     clock |-> clock]

\* compact with a fault: the merged segments are added to the list and the
\* input segments stay
compact_extends_list(db, size, sparse) ==
    LET m == merge(db.disk, db.immutable_segments, size, db.clock)
        dsk == db.disk @@ m.files
        segments == db.immutable_segments \o m.merged_segments
    IN [db EXCEPT !.disk = dsk,
                  !.immutable_segments = segments,
                  !.sparse_memory_index =
                      update_sparse_memory_index(EmptyMap, dsk, segments, sparse),
                  !.clock = m.clock]

\* compact with a fault: the sparse index is not cleared before the rebuild
compact_keeps_index(db, size, sparse) ==
    LET m == merge(db.disk, db.immutable_segments, size, db.clock)
        dsk == clear_segment_list(db.disk @@ m.files, db.immutable_segments)
    IN [db EXCEPT !.disk = dsk,
                  !.immutable_segments = m.merged_segments,
                  !.sparse_memory_index =
                      update_sparse_memory_index(@, dsk, m.merged_segments, sparse),
                  !.clock = m.clock]

\* the compaction inside insert: merge, _clear_segment_list, replacement of
\* the segment list, clear and rebuild of the sparse index
compact(db, size, sparse) ==
    LET m == merge(db.disk, db.immutable_segments, size, db.clock)
        dsk == clear_segment_list(db.disk @@ m.files, db.immutable_segments)
    IN [db EXCEPT !.disk = dsk,
                  !.immutable_segments = m.merged_segments,
                  !.sparse_memory_index =
                      update_sparse_memory_index(EmptyMap, dsk, m.merged_segments, sparse),
                  !.clock = m.clock]

\* the flush inside insert: _write_to_segment and the append to the list
flush(db, sparse) ==
    LET w == write_to_segment(db.mem_table, db.sparse_memory_index, db.disk,
                              sparse, db.clock)
    IN [db EXCEPT !.disk = w.disk,
                  !.sparse_memory_index = w.sparse_memory_index,
                  !.immutable_segments = Append(@, w.segment),
                  !.clock = @ + 1]

BloomAdd(bf, key) == bf \cup {key}

\* DB.get and the in operator on the engine state db
get_of(db, item) ==
    get_in(db.bloom_filter, db.mem_table, db.sparse_memory_index,
           db.immutable_segments, db.disk, item)

contains_of(db, item) ==
    contains_in(db.bloom_filter, db.mem_table, db.sparse_memory_index,
                db.immutable_segments, db.disk, item)

\* the condition of insert under which it flushes: the memtable is at capacity
\* and the key, already added to the Bloom filter, is not in the store
overflows(db, key, max_size) ==
    /\ capacity_reached(db.mem_table, max_size)
    /\ ~contains_of([db EXCEPT !.bloom_filter = BloomAdd(@, key)], key)

\* insert with a fault: the memtable is not cleared after the flush
insert_without_clear(db, key, value, max_size, sparse, size, threshold) ==
    LET bf == BloomAdd(db.bloom_filter, key)
        db1 == [db EXCEPT !.bloom_filter = bf]
    IN IF overflows(db, key, max_size)
       THEN LET db2 == flush(db1, sparse)
                db3 == IF Len(db2.immutable_segments) >= threshold
                       THEN compact(db2, size, sparse)
                       ELSE db2
            IN [db3 EXCEPT !.mem_table = SetItem(@, key, value)]
       ELSE [db1 EXCEPT !.mem_table = SetItem(@, key, value)]

\* insert with a fault: the compaction waits until the list is longer than
\* merge_threshold
insert_compacts_above_threshold(db, key, value, max_size, sparse, size, threshold) ==
    LET bf == BloomAdd(db.bloom_filter, key)
        db1 == [db EXCEPT !.bloom_filter = bf]
    IN IF overflows(db, key, max_size)
       THEN LET db2 == flush(db1, sparse)
                db3 == IF Len(db2.immutable_segments) > threshold
                       THEN compact(db2, size, sparse)
                       ELSE db2
            IN [db3 EXCEPT !.mem_table = SetItem(EmptyMap, key, value)]
       ELSE [db1 EXCEPT !.mem_table = SetItem(@, key, value)]

\* DB.insert with string arguments
insert(db, key, value, max_size, sparse, size, threshold) ==
    LET bf == BloomAdd(db.bloom_filter, key)
        db1 == [db EXCEPT !.bloom_filter = bf]
    IN IF overflows(db, key, max_size)
       THEN LET db2 == flush(db1, sparse)
                db3 == IF Len(db2.immutable_segments) >= threshold
                       THEN compact(db2, size, sparse)
                       ELSE db2
            IN [db3 EXCEPT !.mem_table = SetItem(EmptyMap, key, value)]
       ELSE [db1 EXCEPT !.mem_table = SetItem(@, key, value)]

insert_call_checks_key_only(db, key, value, key_is_str, value_is_str, max_size, sparse, size, threshold) ==
    IF ~key_is_str
    THEN [raised |-> TRUE, db |-> db]
    ELSE [raised |-> FALSE,
          db |-> insert(db, key, value, max_size, sparse, size, threshold)]

\* DB.insert on arguments of any type: key_is_str and value_is_str say
\* whether isinstance(key, str) and isinstance(value, str) hold; both checks
\* come before the first statement that touches the engine
insert_call(db, key, value, key_is_str, value_is_str, max_size, sparse, size, threshold) ==
    IF ~key_is_str
    THEN [raised |-> TRUE, db |-> db]
    ELSE IF ~value_is_str
    THEN [raised |-> TRUE, db |-> db]
    ELSE [raised |-> FALSE,
          db |-> insert(db, key, value, max_size, sparse, size, threshold)]

delitem_removes_key(db, key) ==
    [db EXCEPT !.mem_table = [k \in DOMAIN @ \ {key} |-> @[k]]]

\* DB.__delitem__ on a key the store contains
delitem(db, key) ==
    [db EXCEPT !.mem_table = SetItem(@, key, TOMBSTONE)]

\* DB.__delitem__ on any key: raises, the engine untouched, when the key is
\* not in the store
delitem_call(db, key) ==
    IF contains_of(db, key)
    THEN [raised |-> FALSE, db |-> delitem(db, key)]
    ELSE [raised |-> TRUE, db |-> db]

\* scan_path_for_segments with a fault: the recovered segments are compacted
\* when they are merge_threshold or more
scan_path_then_compact(dsk, sparse, now) ==
    LET segments == SortedSeq(DOMAIN dsk)
        db == [mem_table |-> EmptyMap,
               immutable_segments |-> segments,
               sparse_memory_index |->
                   update_sparse_memory_index(EmptyMap, dsk, segments, sparse),
               bloom_filter |-> update_bloom_filter({}, dsk, segments),
               disk |-> dsk,
               clock |-> now]
    IN IF Len(segments) >= merge_threshold
       THEN compact(db, segment_size, sparse)
       ELSE db

\* DB.__init__ on a base path that holds the files dsk
scan_path_for_segments(dsk, sparse, now) ==
    LET segments == SortedSeq(DOMAIN dsk)
    IN [mem_table |-> EmptyMap,
        immutable_segments |-> segments,
        sparse_memory_index |->
            update_sparse_memory_index(EmptyMap, dsk, segments, sparse),
        bloom_filter |-> update_bloom_filter({}, dsk, segments),
        disk |-> dsk,
        clock |-> now]

\* get_call with a fault: a value found in a segment is kept in the memtable
get_call_caches(db, item) ==
    [value |-> get_of(db, item),
     db |-> IF get_of(db, item) # None /\ item \notin DOMAIN db.mem_table
            THEN [db EXCEPT !.mem_table = SetItem(@, item, get_of(db, item))]
            ELSE db]

\* DB.get as a call: the value it returns and the engine it leaves; no
\* statement of get assigns to a field of the engine or writes to a file
get_call(db, item) == [value |-> get_of(db, item), db |-> db]

\* the in operator as a call: the Bloom filter test, then get
contains_call(db, item) ==
    IF item \notin db.bloom_filter
    THEN [value |-> FALSE, db |-> db]
    ELSE [value |-> get_call(db, item).value # None, db |-> get_call(db, item).db]

\* DB.__getitem__: raises when get returns None
getitem_call(db, item) ==
    [raised |-> get_of(db, item) = None, value |-> get_of(db, item)]

(***************************************************************************)
(* The older engine of the repository, src/sst_engine/sst_engine.py, on a  *)
(* directory of segment files: its recovery, get and the in operator.  It  *)
(* writes segment files like jump_db.py does, keeps one locator per index  *)
(* key, and its get does not consult the Bloom filter.  All keys have the  *)
(* same length and so have all values, so that every record offset of one  *)
(* file is a record boundary of every other file.                          *)
(***************************************************************************)
\* Segment.search of sst_engine.py: reads on to the end of the file
RECURSIVE sst_search(_, _, _)
sst_search(recs, query, offset) ==
    IF offset >= Len(recs) THEN NoEntry
    ELSE IF recs[offset + 1][1] = query THEN recs[offset + 1]
    ELSE sst_search(recs, query, offset + 1)

\* DB.__init__ of sst_engine.py on a base path that holds the files dsk: the
\* walk of _update_sparse_memory_index, each key keeping the locator
\* assigned last; the Bloom filter stays as constructed
sst_scan_path_for_segments(dsk, sparse, now) ==
    LET segments == SortedSeq(DOMAIN dsk)
        walked == update_sparse_memory_index(EmptyMap, dsk, segments, sparse)
    IN [mem_table |-> EmptyMap,
        immutable_segments |-> segments,
        sparse_memory_index |-> [k \in DOMAIN walked |-> walked[k][Len(walked[k])]],
        bloom_filter |-> {},
        disk |-> dsk,
        clock |-> now]

\* DB.get of sst_engine.py; next() on the empty irange raises StopIteration
sst_get_of(db, item) ==
    IF item \in DOMAIN db.mem_table
    THEN [raised |-> FALSE,
          value |-> IF db.mem_table[item] = TOMBSTONE THEN None ELSE db.mem_table[item]]
    ELSE IF DOMAIN db.sparse_memory_index = {}
    THEN [raised |-> FALSE, value |-> None]
    ELSE IF {k \in DOMAIN db.sparse_memory_index : k <= item} = {}
    THEN [raised |-> TRUE, value |-> None]
    ELSE LET closest_key == CHOOSE k \in DOMAIN db.sparse_memory_index :
                                /\ k <= item
                                /\ \A j \in DOMAIN db.sparse_memory_index : j <= item => j <= k
             segment == db.sparse_memory_index[closest_key].segment
             offset == db.sparse_memory_index[closest_key].offset
             entry == sst_search(db.disk[segment], item, offset)
             segment_index == CHOOSE i \in 1..Len(db.immutable_segments) :
                                  db.immutable_segments[i] = segment
             newer == Reverse(SubSeq(db.immutable_segments, segment_index + 1,
                                     Len(db.immutable_segments)))
             found == SelectSeq(newer, LAMBDA t : sst_search(db.disk[t], item, offset) # NoEntry)
         IN IF entry # NoEntry THEN [raised |-> FALSE, value |-> entry[2]]
            ELSE IF found # <<>>
            THEN [raised |-> FALSE,
                  value |-> sst_search(db.disk[found[1]], item, offset)[2]]
            ELSE [raised |-> FALSE, value |-> None]

\* DB.__contains__ of sst_engine.py
sst_contains_of(db, item) ==
    IF item \notin db.bloom_filter
    THEN [raised |-> FALSE, value |-> FALSE]
    ELSE [raised |-> sst_get_of(db, item).raised,
          value |-> sst_get_of(db, item).value # None]

Becomes(db) ==
    /\ mem_table' = db.mem_table
    /\ immutable_segments' = db.immutable_segments
    /\ sparse_memory_index' = db.sparse_memory_index
    /\ bloom_filter' = db.bloom_filter
    /\ disk' = db.disk
    /\ clock' = db.clock

NoChain == [disk |-> EmptyMap, segments |-> <<>>, out |-> <<>>, done |-> FALSE]

Init ==
    /\ max_inmemory_size \in MaxInmemorySizes
    /\ sparse_offset \in SparseOffsets
    /\ segment_size \in SegmentSizes
    /\ merge_threshold \in MergeThresholds
    /\ mem_table = EmptyMap
    /\ immutable_segments = <<>>
    /\ sparse_memory_index = EmptyMap
    /\ bloom_filter = {}
    /\ disk = EmptyMap
    /\ clock = 1
    /\ nops = 0
    /\ ref = EmptyMap
    /\ deleted = {}
    /\ chain = NoChain
    /\ seg = NewSegment

\* db[key] = value; the value is the number of the call
Put(key) ==
    /\ nops < MaxOps
    /\ Becomes(insert_call(db_state, key, nops + 1, TRUE, TRUE,
                           max_inmemory_size, sparse_offset, segment_size,
                           merge_threshold).db)
    /\ nops' = nops + 1
    /\ ref' = [k \in DOMAIN ref \cup {key} |-> IF k = key THEN nops + 1 ELSE ref[k]]
    /\ deleted' = deleted \ {key}
    /\ UNCHANGED <<config, chain, seg>>

\* db[key] = value with a key or a value that is not a string: raises
PutInvalid(key, key_is_str, value_is_str) ==
    /\ ~(key_is_str /\ value_is_str)
    /\ insert_call(db_state, key, nops + 1, key_is_str, value_is_str,
                   max_inmemory_size, sparse_offset, segment_size,
                   merge_threshold).raised
    /\ Becomes(insert_call(db_state, key, nops + 1, key_is_str, value_is_str,
                           max_inmemory_size, sparse_offset, segment_size,
                           merge_threshold).db)
    /\ UNCHANGED <<config, chain, seg, nops, ref, deleted>>

\* del db[key] on a key the store contains
Delete(key) ==
    /\ nops < MaxOps
    /\ ~delitem_call(db_state, key).raised
    /\ Becomes(delitem_call(db_state, key).db)
    /\ nops' = nops + 1
    /\ ref' = [k \in DOMAIN ref \ {key} |-> ref[k]]
    /\ deleted' = deleted \cup {key}
    /\ UNCHANGED <<config, chain, seg>>

\* del db[key] on a key the store does not contain: raises
DeleteMissing(key) ==
    /\ delitem_call(db_state, key).raised
    /\ Becomes(delitem_call(db_state, key).db)
    /\ UNCHANGED <<config, chain, seg, nops, ref, deleted>>

\* db.get(key)
Get(key) ==
    /\ Becomes(get_call(db_state, key).db)
    /\ UNCHANGED <<config, chain, seg, nops, ref, deleted>>

\* key in db
Contains(key) ==
    /\ Becomes(contains_call(db_state, key).db)
    /\ UNCHANGED <<config, chain, seg, nops, ref, deleted>>

\* the engine is discarded and a new DB is constructed on the same path
Reopen ==
    /\ nops < MaxOps
    /\ Becomes(scan_path_for_segments(disk, sparse_offset, clock))
    /\ nops' = nops + 1
    /\ ref' = EmptyMap
    /\ deleted' = {}
    /\ UNCHANGED <<config, chain, seg>>

Next ==
    \/ \E key \in Keys : Put(key)
    \/ \E key \in Keys, key_is_str, value_is_str \in BOOLEAN :
          PutInvalid(key, key_is_str, value_is_str)
    \/ \E key \in Keys : Delete(key)
    \/ \E key \in Keys : DeleteMissing(key)
    \/ \E key \in Keys : Get(key)
    \/ \E key \in Keys : Contains(key)

Spec == Init /\ [][Next]_vars

NextRecovery ==
    \/ Next
    \/ Reopen

SpecRecovery == Init /\ [][NextRecovery]_vars

(***************************************************************************)
(* The system clock as the engine's environment.  A segment's timestamp is *)
(* time.time() at its creation, and time.time() follows the system clock,  *)
(* which can be set back between two calls.  Here the clock starts at      *)
(* EpochStart and may be set back once, by BackStep, which is more than    *)
(* the number of segments the calls of one history create: no file is ever *)
(* created under the name of an existing one.                              *)
(***************************************************************************)
EpochStart == 100
BackStep == 50

InitClock ==
    /\ max_inmemory_size \in MaxInmemorySizes
    /\ sparse_offset \in SparseOffsets
    /\ segment_size \in SegmentSizes
    /\ merge_threshold \in MergeThresholds
    /\ mem_table = EmptyMap
    /\ immutable_segments = <<>>
    /\ sparse_memory_index = EmptyMap
    /\ bloom_filter = {}
    /\ disk = EmptyMap
    /\ clock = EpochStart
    /\ nops = 0
    /\ ref = EmptyMap
    /\ deleted = {}
    /\ chain = NoChain
    /\ seg = NewSegment

\* the system clock is set back
ClockSetBack ==
    /\ clock >= EpochStart
    /\ clock' = clock - BackStep
    /\ UNCHANGED <<config, mem_table, immutable_segments, sparse_memory_index,
                   bloom_filter, disk, nops, ref, deleted, chain, seg>>

NextClock ==
    \/ NextRecovery
    \/ ClockSetBack

SpecClock == InitClock /\ [][NextClock]_vars

(***************************************************************************)
(* chain_segments on its own: any number of segments up to                 *)
(* MaxChainSegments, passed in any order, with pairwise distinct           *)
(* timestamps, each sorted by key over the keys 1..MaxChainKey.  The value *)
(* of a record is the timestamp of its segment, so the origin of every     *)
(* yielded entry is visible.                                               *)
(***************************************************************************)
Orders(n) ==
    {p \in [1..n -> 1..n] : \A i, j \in 1..n : i # j => p[i] # p[j]}

\* the segment with timestamp t that holds exactly the keys ks
SegmentWith(ks, t) ==
    LET sorted == SortedSeq(ks)
    IN [i \in 1..Len(sorted) |-> <<sorted[i], t>>]

InitChain ==
    /\ max_inmemory_size = 1
    /\ sparse_offset = 1
    /\ segment_size = 1
    /\ merge_threshold = 1
    /\ mem_table = EmptyMap
    /\ immutable_segments = <<>>
    /\ sparse_memory_index = EmptyMap
    /\ bloom_filter = {}
    /\ disk = EmptyMap
    /\ clock = 1
    /\ nops = 0
    /\ ref = EmptyMap
    /\ deleted = {}
    /\ seg = NewSegment
    /\ \E n \in 1..MaxChainSegments :
          \E keysets \in [1..n -> SUBSET (1..MaxChainKey)], order \in Orders(n) :
              chain = [disk |-> [t \in 1..n |-> SegmentWith(keysets[t], t)],
                       segments |-> order,
                       out |-> <<>>,
                       done |-> FALSE]

ChainSegments ==
    /\ ~chain.done
    /\ chain' = [chain EXCEPT !.out = chain_segments(chain.disk, chain.segments),
                              !.done = TRUE]
    /\ UNCHANGED <<config, mem_table, immutable_segments, sparse_memory_index,
                   bloom_filter, disk, clock, nops, ref, deleted, seg>>

NextChain == ChainSegments

SpecChain == InitChain /\ [][NextChain]_vars

(***************************************************************************)
(* A Segment object on its own: write sessions, in which add_entry is      *)
(* called with any key, and read sessions, in which the offsets that       *)
(* add_entry returned are sought and read.  MaxSegmentSize bounds the      *)
(* number of records the object writes.                                    *)
(***************************************************************************)
InitSegment ==
    /\ max_inmemory_size = 1
    /\ sparse_offset = 1
    /\ segment_size = 1
    /\ merge_threshold = 1
    /\ mem_table = EmptyMap
    /\ immutable_segments = <<>>
    /\ sparse_memory_index = EmptyMap
    /\ bloom_filter = {}
    /\ disk = EmptyMap
    /\ clock = 1
    /\ nops = 0
    /\ ref = EmptyMap
    /\ deleted = {}
    /\ chain = NoChain
    /\ seg = NewSegment

OpenWrite ==
    /\ seg.mode = "closed"
    /\ seg' = open(seg, "w")
    /\ UNCHANGED not_seg

OpenRead ==
    /\ seg.mode = "closed"
    /\ seg' = open(seg, "r")
    /\ UNCHANGED not_seg

Close ==
    /\ seg.mode # "closed"
    /\ seg' = close(seg)
    /\ UNCHANGED not_seg

\* offset = segment.add_entry((key, value)); the caller keeps the pair and
\* the offset when the call returns
AddEntry(key, value, value_is_str) ==
    /\ seg.mode = "w"
    /\ seg.size < MaxSegmentSize
    /\ LET r == add_entry(seg, key, value, value_is_str)
       IN seg' = IF r.raised = ""
                 THEN [r.segment EXCEPT !.entries = Append(@, <<key, value>>),
                                        !.offsets = Append(@, r.pos)]
                 ELSE r.segment
    /\ UNCHANGED not_seg

\* segment.seek(offset) with the offset add_entry returned for record i
Seek(i) ==
    /\ seg.mode = "r"
    /\ i \in 1..Len(seg.offsets)
    /\ seg' = seek(seg, seg.offsets[i])
    /\ UNCHANGED not_seg

\* segment.read_entry().to_pair()
ReadEntry ==
    /\ seg.mode = "r"
    /\ LET r == read_entry(seg)
       IN seg' = [r.segment EXCEPT !.result = r.entry]
    /\ UNCHANGED not_seg

NextSegment ==
    \/ OpenWrite
    \/ OpenRead
    \/ Close
    \/ \E key \in SegmentKeys, value \in SegmentValues, value_is_str \in BOOLEAN :
          AddEntry(key, value, value_is_str)
    \/ \E i \in 1..MaxSegmentSize : Seek(i)
    \/ ReadEntry

SpecSegment == InitSegment /\ [][NextSegment]_vars

(***************************************************************************)
(* Properties                                                              *)
(***************************************************************************)
KeysOf(recs) == {recs[i][1] : i \in 1..Len(recs)}

ValueOf(recs, k) == recs[CHOOSE i \in 1..Len(recs) : recs[i][1] = k][2]

\* the segments of the segment list that store key k
SegmentsStoring(k) ==
    {immutable_segments[i] : i \in 1..Len(immutable_segments)}
        \cap {t \in DOMAIN disk : k \in KeysOf(disk[t])}

Newest(S) == CHOOSE t \in S : \A u \in S : u <= t

StrictlyAscending(recs) ==
    \A i \in 1..(Len(recs) - 1) : recs[i][1] < recs[i + 1][1]

\* segment 1, the first one flushed, has been removed by a compaction
Compacted == clock > 1 /\ 1 \notin DOMAIN disk

\* C1: after any sequence of put and delete calls, a key whose most recent
\* call is put(k, v) reads back as v: get agrees with the reference map.
C1_GetAgreesWithReference ==
    \A k \in DOMAIN ref : get(k) = ref[k]

\* C2: a key whose most recent call is a successful delete reads as null and
\* is not contained, whatever flushes and compactions happened since.
C2_DeletedStaysDeleted ==
    \A k \in deleted : get(k) = None /\ ~contains(k)

\* C3: in the state in which put(k, v) returns, get(k) is v, whether the put
\* updated the memtable in place, flushed, or flushed and compacted.  (The
\* n-th call writes the value n, so ref[k] = nops says that the call that
\* has just returned is put(k, nops).)
C3_PutThenGet ==
    \A k \in DOMAIN ref : ref[k] = nops => get(k) = nops

\* a put has just returned that flushed and compacted, and its key reads back
C3_Witness ==
    /\ Compacted
    /\ \E k \in Keys : /\ mem_table = (k :> nops)
                       /\ k \in DOMAIN ref /\ ref[k] = nops
                       /\ get(k) = nops
                       /\ SegmentsStoring(k) # {}

\* C4: a key that is not in the memtable and is stored in two or more
\* segments of the list reads as the value of the newest of those segments.
C4_NewestSegmentWins ==
    \A k \in Keys :
        (k \notin DOMAIN mem_table /\ Cardinality(SegmentsStoring(k)) >= 2)
            => get(k) = ValueOf(disk[Newest(SegmentsStoring(k))], k)

C6_MemTableBounded ==
    Cardinality(DOMAIN mem_table) <= max_inmemory_size

\* C7: every segment written by a flush or a compaction holds its records in
\* strictly ascending key order, so no key is repeated in it.
C7_SegmentsSorted ==
    \A t \in DOMAIN disk : StrictlyAscending(disk[t])

\* a compaction has written a segment of two records
C7_Witness ==
    /\ Compacted
    /\ \E i \in 1..Len(immutable_segments) :
          /\ Len(disk[immutable_segments[i]]) >= 2
          /\ StrictlyAscending(disk[immutable_segments[i]])

\* C8: no record of any segment has TOMBSTONE as its value, and get never
\* returns TOMBSTONE.
C8_NoTombstoneOnDisk ==
    /\ \A t \in DOMAIN disk : \A i \in 1..Len(disk[t]) : disk[t][i][2] # TOMBSTONE
    /\ \A k \in Keys : get(k) # TOMBSTONE

\* a memtable holding a tombstone and a live entry has been flushed
C8_Witness ==
    \E k \in deleted :
        /\ k \notin DOMAIN mem_table
        /\ \E i \in 1..Len(immutable_segments) :
              /\ immutable_segments[i] = clock - 1
              /\ disk[immutable_segments[i]] # <<>>
              /\ k \notin KeysOf(disk[immutable_segments[i]])

\* C9: every key of the memtable and of every segment of the list is in the
\* Bloom filter, so a key the filter rejects has no stored value.
C9_BloomSound ==
    \A k \in Keys :
        (k \in DOMAIN mem_table \/ SegmentsStoring(k) # {}) => k \in bloom_filter

\* directly after recovery: the memtable is empty and the segments hold keys
C9_Witness ==
    /\ nops > 0 /\ ref = EmptyMap /\ deleted = {} /\ mem_table = EmptyMap
    /\ \E k \in Keys : SegmentsStoring(k) # {} /\ k \in bloom_filter

\* the segments passed to chain_segments that hold key k
ChainSegmentsStoring(k) == {t \in DOMAIN chain.disk : k \in KeysOf(chain.disk[t])}

\* C10: over sorted segments with distinct timestamps chain_segments yields
\* every key of the union of its inputs exactly once, in strictly increasing
\* key order, each with the value of the newest segment that holds the key.
C10_ChainSegments ==
    chain.done =>
        /\ StrictlyAscending(chain.out)
        /\ KeysOf(chain.out) = UNION {KeysOf(chain.disk[t]) : t \in DOMAIN chain.disk}
        /\ \A i \in 1..Len(chain.out) :
              chain.out[i][2] =
                  ValueOf(chain.disk[Newest(ChainSegmentsStoring(chain.out[i][1]))],
                          chain.out[i][1])

\* a key held by two segments, the newer one passed first, has been merged
C10_Witness ==
    /\ chain.done
    /\ Len(chain.segments) >= 2
    /\ chain.segments[1] > chain.segments[2]
    /\ \E k \in Keys : /\ Cardinality(ChainSegmentsStoring(k)) >= 2
                       /\ k \in KeysOf(chain.out)
    /\ Len(chain.out) >= 2

\* the state of insert(key) between its flush and its compaction
BeforeCompaction(key) ==
    flush([db_state EXCEPT !.bloom_filter = BloomAdd(@, key)], sparse_offset)

\* the state of insert(key) after its compaction, the memtable not yet cleared
AfterCompaction(key) ==
    compact(BeforeCompaction(key), segment_size, sparse_offset)

\* insert(key) called now would flush and compact
WouldCompact(key) ==
    /\ overflows(db_state, key, max_inmemory_size)
    /\ Len(immutable_segments) + 1 >= merge_threshold

\* the segments of the list of db that store key k
SegmentsStoringIn(db, k) ==
    {db.immutable_segments[i] : i \in 1..Len(db.immutable_segments)}
        \cap {t \in DOMAIN db.disk : k \in KeysOf(db.disk[t])}

\* the most recent value of k in db: the memtable first, then the newest
\* segment that stores k
MostRecentIn(db, k) ==
    IF k \in DOMAIN db.mem_table
    THEN IF db.mem_table[k] = TOMBSTONE THEN None ELSE db.mem_table[k]
    ELSE IF SegmentsStoringIn(db, k) = {} THEN None
    ELSE ValueOf(db.disk[Newest(SegmentsStoringIn(db, k))], k)

\* C11: the compaction step of insert preserves reads: for every key, get on
\* the state just before the step and on the state just after it gives the
\* same result, the most recent value of the key before the step, and the
\* number of keys with a non-null get is the same.
C11_CompactionPreservesReads ==
    \A key \in Keys :
        WouldCompact(key) =>
            LET before == BeforeCompaction(key)
                after == AfterCompaction(key)
            IN /\ \A k \in Keys :
                     /\ get_of(before, k) = get_of(after, k)
                     /\ get_of(after, k) = MostRecentIn(before, k)
               /\ Cardinality({k \in Keys : get_of(before, k) # None})
                     = Cardinality({k \in Keys : get_of(after, k) # None})

\* the engine a new DB on the same path would be
Recovered == scan_path_for_segments(disk, sparse_offset, clock)

\* C12: discarding the engine and constructing a new DB on the same path
\* gives, for every key that is not in the memtable and is stored in a
\* segment, the same get answer as the old engine gave.
C12_RecoveryPreservesReads ==
    \A k \in Keys :
        (k \notin DOMAIN mem_table /\ SegmentsStoring(k) # {})
            => get_of(Recovered, k) = get(k)

\* C13: delete(k) raises exactly when get(k) is null, and then leaves the
\* memtable, the segment list, the sparse index and the Bloom filter as they
\* were; otherwise it stores TOMBSTONE under k in the memtable and changes
\* nothing else, after which get(k) is null and a second delete(k) raises.
C13_Delete ==
    \A k \in Keys :
        LET r == delitem_call(db_state, k)
        IN /\ r.raised <=> get(k) = None
           /\ r.raised => r.db = db_state
           /\ ~r.raised =>
                 /\ DOMAIN r.db.mem_table = DOMAIN mem_table \cup {k}
                 /\ r.db.mem_table[k] = TOMBSTONE
                 /\ \A j \in DOMAIN mem_table \ {k} : r.db.mem_table[j] = mem_table[j]
                 /\ r.db = [db_state EXCEPT !.mem_table = r.db.mem_table]
                 /\ get_of(r.db, k) = None
                 /\ delitem_call(r.db, k).raised

\* a key that a segment stores has just been deleted: it reads as null, and
\* another key is rejected by the Bloom filter
C13_Witness ==
    \E k \in deleted :
        /\ k \in DOMAIN mem_table /\ mem_table[k] = TOMBSTONE
        /\ SegmentsStoring(k) # {}
        /\ get(k) = None
        /\ delitem_call(db_state, k).raised
        /\ \E j \in Keys : j \notin bloom_filter /\ delitem_call(db_state, j).raised

\* the outcome of db[key] = value called now with arguments of the given types
InsertNow(key, key_is_str, value_is_str) ==
    insert_call(db_state, key, nops + 1, key_is_str, value_is_str,
                max_inmemory_size, sparse_offset, segment_size, merge_threshold)

\* C14: put with a key or a value that is not a string raises and leaves the
\* whole engine as it was: Bloom filter, memtable, segment list, sparse index
\* and files, also when the memtable is at capacity.
C14_PutInvalidChangesNothing ==
    \A key \in Keys, key_is_str, value_is_str \in BOOLEAN :
        ~(key_is_str /\ value_is_str) =>
            /\ InsertNow(key, key_is_str, value_is_str).raised
            /\ InsertNow(key, key_is_str, value_is_str).db = db_state

\* the memtable is at capacity and the key is new, so that the same call with
\* a string value would flush and compact; with a value that is not a string
\* it raises and changes nothing
C14_Witness ==
    \E key \in Keys :
        /\ WouldCompact(key)
        /\ key \notin bloom_filter
        /\ InsertNow(key, TRUE, TRUE).db.disk # disk
        /\ InsertNow(key, TRUE, FALSE).raised
        /\ InsertNow(key, TRUE, FALSE).db = db_state

\* C15: within one write session add_entry raises UnsortedEntries whenever
\* the key is less than or equal to the key of the previous add_entry of the
\* session, so the keys a session writes are strictly ascending.
C15_UnsortedWriteRejected ==
    seg.mode = "w" =>
        /\ \A key \in SegmentKeys, value \in SegmentValues :
              (seg.previous_entry_key # None /\ key <= seg.previous_entry_key)
                  => add_entry(seg, key, value, TRUE).raised = "UnsortedEntries"
        /\ StrictlyAscending(seg.entries)

\* C19: the offset add_entry returned for a record is the position of that
\* record: in a read session after the write session, seek(offset) followed
\* by read_entry returns the pair that was passed to add_entry, for the
\* first record and for every later one.
C19_OffsetRoundTrip ==
    seg.mode = "r" =>
        \A i \in 1..Len(seg.offsets) :
            /\ ~read_entry(seek(seg, seg.offsets[i])).raised
            /\ read_entry(seek(seg, seg.offsets[i])).entry = seg.entries[i]

\* the second record of a segment, different from the first, has been
\* sought by its offset and read back in a read session
C19_Witness ==
    /\ seg.mode = "r"
    /\ Len(seg.offsets) >= 2
    /\ seg.entries[1] # seg.entries[2]
    /\ seg.offsets[2] > 0
    /\ seg.pos = StartOfLine(seg.file, 3)
    /\ seg.result = seg.entries[2]

\* the engine of sst_engine.py constructed on the same path
SstRecovered == sst_scan_path_for_segments(disk, sparse_offset, clock)

\* C16: for every key, contains(k) is true exactly when get(k) is not null
\* and db[k] raises exactly when get(k) is null, in every state of the
\* running engine and directly after recovery, also for the keys that are
\* only in recovered segments.
C16_ContainsAgreesWithGet ==
    \A k \in Keys :
        /\ contains(k) <=> get(k) # None
        /\ getitem_call(db_state, k).raised <=> get(k) = None
        /\ contains_of(Recovered, k) <=> get_of(Recovered, k) # None
        /\ getitem_call(Recovered, k).raised <=> get_of(Recovered, k) = None
        /\ ~sst_get_of(SstRecovered, k).raised =>
              (sst_contains_of(SstRecovered, k).value
                  <=> sst_get_of(SstRecovered, k).value # None)

\* C17: a DB constructed on a directory of n segment files has an empty
\* memtable and n segments in its list, whatever merge_threshold is: the
\* recovery creates and removes no file.
C17_RecoveryLoadsEverySegment ==
    LET new == Recovered
    IN /\ new.mem_table = EmptyMap
       /\ Len(new.immutable_segments) = Cardinality(DOMAIN disk)
       /\ {new.immutable_segments[i] : i \in 1..Len(new.immutable_segments)}
             = DOMAIN disk
       /\ new.disk = disk

\* directly after a recovery that found at least two segment files holding
\* at least two records, and not fewer files than merge_threshold
C17_Witness ==
    /\ nops > 0 /\ ref = EmptyMap /\ deleted = {} /\ mem_table = EmptyMap
    /\ Len(immutable_segments) >= 2
    /\ Len(immutable_segments) >= merge_threshold
    /\ Len(immutable_segments) = Cardinality(DOMAIN disk)
    /\ \E t, u \in DOMAIN disk : t # u /\ disk[t] # <<>> /\ disk[u] # <<>>
    /\ db_state = Recovered

\* the file a flush of the memtable would write now
FlushedNow ==
    LET w == write_to_segment(mem_table, sparse_memory_index, disk,
                              sparse_offset, clock)
    IN w.disk[w.segment]

AfterPut(key) == InsertNow(key, TRUE, TRUE).db

\* in the engine `after` the call the memtable is exactly {key: value} and
\* every memtable entry from before the call that is no tombstone is a
\* record of a segment of the list
FlushedBeforeWrite(key, after) ==
    /\ after.mem_table = (key :> (nops + 1))
    /\ \A k \in DOMAIN mem_table :
          mem_table[k] # TOMBSTONE =>
              \E i \in 1..Len(after.immutable_segments) :
                  \E j \in 1..Len(after.disk[after.immutable_segments[i]]) :
                      after.disk[after.immutable_segments[i]][j] = <<k, mem_table[k]>>

\* no segment has been written yet
EmptyEngine == immutable_segments = <<>> /\ disk = EmptyMap

\* C20 as claimed: a put of a new key at capacity flushes (and compacts)
\* before it writes, and the first such overflow on an empty engine gives
\* segment_count() == 1.
C20_FirstOverflowOneSegment ==
    \A key \in Keys :
        overflows(db_state, key, max_inmemory_size) =>
            LET after == AfterPut(key)
            IN /\ FlushedBeforeWrite(key, after)
               /\ EmptyEngine => Len(after.immutable_segments) = 1

\* C20: a put of a new key at capacity flushes (and compacts) before it
\* writes: on return the memtable is exactly {k: v} and every earlier
\* memtable entry that is no tombstone is in a segment of the list.  The
\* first such overflow on an empty engine gives segment_count() == 1 when
\* merge_threshold > 1; with merge_threshold = 1 the flushed segment is
\* compacted at once into as many segments as its records need at
\* segment_size records each.
C20_FlushBeforeWrite ==
    \A key \in Keys :
        overflows(db_state, key, max_inmemory_size) =>
            LET after == AfterPut(key)
            IN /\ FlushedBeforeWrite(key, after)
               /\ (EmptyEngine /\ merge_threshold > 1)
                     => Len(after.immutable_segments) = 1
               /\ (EmptyEngine /\ merge_threshold = 1)
                     => Len(after.immutable_segments)
                           = (Len(FlushedNow) + segment_size - 1) \div segment_size

\* the first overflow of an engine has just flushed two entries into the
\* only segment of the list, and the memtable holds the new key alone
C20_Witness ==
    /\ clock = 2
    /\ immutable_segments = <<1>>
    /\ Len(disk[1]) = 2
    /\ merge_threshold > 1
    /\ \E k \in Keys : mem_table = (k :> nops) /\ k \notin KeysOf(disk[1])

\* C21: a put of a key the store contains that finds the memtable at
\* capacity is an update in place: no flush and no compaction, the segment
\* list, the files and the sparse index unchanged, the memtable with the same
\* set of keys, and only the value under the key changed.
C21_UpdateInPlace ==
    \A key \in Keys :
        (capacity_reached(mem_table, max_inmemory_size) /\ contains(key)) =>
            LET after == AfterPut(key)
            IN /\ after.immutable_segments = immutable_segments
               /\ after.disk = disk
               /\ after.sparse_memory_index = sparse_memory_index
               /\ DOMAIN after.mem_table = DOMAIN mem_table
               /\ after.mem_table[key] = nops + 1
               /\ \A k \in DOMAIN mem_table \ {key} :
                     after.mem_table[k] = mem_table[k]

\* merge has run between the current state and the engine `after`: merge
\* creates at least one file, so more than the one file of a flush has been
\* created
MergeRan(after) == after.clock > clock + 1

\* C22: compaction runs only inside a put that flushed, and exactly when the
\* segment list with the flushed segment appended has merge_threshold
\* segments or more; a flush that leaves the list shorter appends one segment
\* and leaves every earlier segment, its file and its position as they were.
\* A put that does not flush, a delete and a recovery never compact.
C22_CompactionExactlyAtThreshold ==
    /\ \A key \in Keys :
          LET after == AfterPut(key)
              flushed == overflows(db_state, key, max_inmemory_size)
          IN /\ MergeRan(after)
                   <=> (flushed /\ Len(immutable_segments) + 1 >= merge_threshold)
             /\ (flushed /\ Len(immutable_segments) + 1 < merge_threshold) =>
                   /\ Len(after.immutable_segments) = Len(immutable_segments) + 1
                   /\ SubSeq(after.immutable_segments, 1, Len(immutable_segments))
                         = immutable_segments
                   /\ \A t \in DOMAIN disk : t \in DOMAIN after.disk /\ after.disk[t] = disk[t]
             /\ ~flushed =>
                   /\ after.immutable_segments = immutable_segments
                   /\ after.disk = disk
    /\ \A key \in Keys : ~MergeRan(delitem_call(db_state, key).db)
    /\ ~MergeRan(Recovered)

\* two flushes have left the list one short of merge_threshold, each
\* appending a segment, and the put of a new key would now flush and compact
C22_Witness ==
    /\ merge_threshold = 3
    /\ immutable_segments = <<1, 2>>
    /\ disk[1] # <<>> /\ disk[2] # <<>>
    /\ \E key \in Keys :
          /\ overflows(db_state, key, max_inmemory_size)
          /\ MergeRan(AfterPut(key))
          /\ 1 \notin DOMAIN AfterPut(key).disk

\* the keys held by the segments of the list of db
KeysStoredIn(db) ==
    UNION {KeysOf(db.disk[db.immutable_segments[i]]) :
              i \in 1..Len(db.immutable_segments)}

\* the records of the segments of the list of db, in list order
RecordsInListOrder(db) ==
    Concat([i \in 1..Len(db.immutable_segments) |-> db.disk[db.immutable_segments[i]]])

\* C23: a compaction over input segments holding D >= 1 distinct keys
\* replaces the segment list by ceil(D / segment_size) new segments, each of
\* 1 to segment_size records and all but the last of exactly segment_size;
\* the outputs concatenated in list order are the merge stream, in key
\* order, and no input segment remains in the list.
C23_CompactionOutput ==
    \A key \in Keys :
        WouldCompact(key) =>
            LET before == BeforeCompaction(key)
                after == AfterCompaction(key)
                D == Cardinality(KeysStoredIn(before))
                n == Len(after.immutable_segments)
            IN D >= 1 =>
                  /\ n = (D + segment_size - 1) \div segment_size
                  /\ \A i \in 1..n :
                        /\ Len(after.disk[after.immutable_segments[i]]) >= 1
                        /\ Len(after.disk[after.immutable_segments[i]]) <= segment_size
                        /\ i < n => Len(after.disk[after.immutable_segments[i]]) = segment_size
                  /\ RecordsInListOrder(after)
                        = chain_segments(before.disk, before.immutable_segments)
                  /\ StrictlyAscending(RecordsInListOrder(after))
                  /\ KeysStoredIn(after) = KeysStoredIn(before)
                  /\ \A i \in 1..n, j \in 1..Len(before.immutable_segments) :
                        after.immutable_segments[i] # before.immutable_segments[j]

\* a put has just returned that compacted three distinct keys into two
\* segments of segment_size = 2: the first full, the last with one record,
\* and the list is still not shorter than merge_threshold
C23_Witness ==
    /\ Compacted
    /\ segment_size = 2
    /\ Len(immutable_segments) = 2
    /\ Len(immutable_segments) >= merge_threshold
    /\ Len(disk[immutable_segments[1]]) = 2
    /\ Len(disk[immutable_segments[2]]) = 1
    /\ {immutable_segments[1], immutable_segments[2]} = DOMAIN disk
    /\ clock = immutable_segments[2] + 1
    /\ StrictlyAscending(RecordsInListOrder(db_state))
    /\ \E k \in DOMAIN ref : ref[k] = nops /\ mem_table = (k :> nops)

\* the segments of the segment list
ListedSegments == {immutable_segments[i] : i \in 1..Len(immutable_segments)}

\* C24: whenever a call has returned, every locator the sparse index keeps
\* under a key k names a segment of the current segment list, and the record
\* at its offset in that segment has the key k; no locator names a segment
\* that a compaction removed.
C24_LocatorsValid ==
    \A k \in DOMAIN sparse_memory_index :
        \A i \in 1..Len(sparse_memory_index[k]) :
            LET kd == sparse_memory_index[k][i]
            IN /\ kd.segment \in ListedSegments
               /\ kd.segment \in DOMAIN disk
               /\ kd.offset < Len(disk[kd.segment])
               /\ disk[kd.segment][kd.offset + 1][1] = k

\* a compaction has removed the segments flushed first and the index, built
\* anew, holds a locator to a record that is not the first of its segment
C24_Witness ==
    /\ Compacted
    /\ 2 \notin DOMAIN disk
    /\ DOMAIN sparse_memory_index # {}
    /\ \E k \in DOMAIN sparse_memory_index :
          \E i \in 1..Len(sparse_memory_index[k]) :
              /\ sparse_memory_index[k][i].offset > 0
              /\ sparse_memory_index[k][i].segment \in ListedSegments
              /\ disk[sparse_memory_index[k][i].segment][sparse_memory_index[k][i].offset + 1][1] = k

\* the locators of a sparse index, each with the key it is listed under
LocatorSet(smi) ==
    UNION {{<<k, smi[k][i]>> : i \in 1..Len(smi[k])} : k \in DOMAIN smi}

\* the number of records in the first p segments of the list of db
RECURSIVE RecordsUpTo(_, _)
RecordsUpTo(db, p) ==
    IF p = 0 THEN 0
    ELSE RecordsUpTo(db, p - 1) + Len(db.disk[db.immutable_segments[p]])

\* the locators a rebuild over the list of db is to leave: one for the record
\* visited i-th, counted from 0 over all segments in list order, exactly when
\* i is a multiple of sparse_offset
RebuiltLocators(db) ==
    UNION {{<<db.disk[db.immutable_segments[p]][j][1],
              KeyDirEntry(j - 1, db.immutable_segments[p])>> :
               j \in {i \in 1..Len(db.disk[db.immutable_segments[p]]) :
                         (RecordsUpTo(db, p - 1) + i - 1) % sparse_offset = 0}} :
           p \in 1..Len(db.immutable_segments)}

\* the locators a flush of the memtable is to add for the new segment: one for
\* the record appended j-th, counted from 0 within the flush, exactly when j
\* is a multiple of sparse_offset
FlushedLocators ==
    {<<FlushedNow[j][1], KeyDirEntry(j - 1, clock)>> :
        j \in {i \in 1..Len(FlushedNow) : (i - 1) % sparse_offset = 0}}

\* C25: a rebuild of the sparse index (recovery or compaction) leaves a
\* locator for the i-th record visited, counted from 0 over all segments in
\* list order, exactly when i mod sparse_offset = 0; a flush adds a locator
\* for the j-th record it appends, counted from 0 within the flush, exactly
\* when j mod sparse_offset = 0 and keeps the locators there were; and the
\* locators under one key go from the oldest segment to the newest.
C25_SparseIndexLocators ==
    /\ LET new == Recovered
       IN LocatorSet(new.sparse_memory_index) = RebuiltLocators(new)
    /\ \A key \in Keys :
          overflows(db_state, key, max_inmemory_size) =>
              LET flushed == BeforeCompaction(key)
              IN /\ LocatorSet(flushed.sparse_memory_index)
                       = LocatorSet(sparse_memory_index) \cup FlushedLocators
                 /\ \A k \in DOMAIN sparse_memory_index :
                       SubSeq(flushed.sparse_memory_index[k], 1, Len(sparse_memory_index[k]))
                           = sparse_memory_index[k]
                 /\ WouldCompact(key) =>
                       LET after == AfterCompaction(key)
                       IN LocatorSet(after.sparse_memory_index) = RebuiltLocators(after)
    /\ \A k \in DOMAIN sparse_memory_index :
          \A i, j \in 1..Len(sparse_memory_index[k]) :
              i < j => sparse_memory_index[k][i].segment < sparse_memory_index[k][j].segment

\* directly after a recovery with sparse_offset = 2 over two segments: the
\* first record of the second segment is visited second and has no locator,
\* and a key has locators into two segments
C25_Witness ==
    /\ nops > 0 /\ ref = EmptyMap /\ deleted = {} /\ mem_table = EmptyMap
    /\ sparse_offset = 2
    /\ Len(immutable_segments) >= 2
    /\ Len(disk[immutable_segments[1]]) = 1
    /\ Len(disk[immutable_segments[2]]) >= 1
    /\ \A k \in DOMAIN sparse_memory_index :
          \A i \in 1..Len(sparse_memory_index[k]) :
              sparse_memory_index[k][i] # KeyDirEntry(0, immutable_segments[2])
    /\ LocatorSet(sparse_memory_index) = RebuiltLocators(db_state)
    /\ \E k \in DOMAIN sparse_memory_index : Len(sparse_memory_index[k]) >= 2

\* C26: in every reachable state the segment list is in strictly ascending
\* timestamp order: the segments of flushes, of compactions and of recovery
\* have pairwise distinct timestamps that increase with the position in the
\* list.
C26_SegmentListAscending ==
    \A i, j \in 1..Len(immutable_segments) :
        i < j => immutable_segments[i] < immutable_segments[j]

\* the record boundaries of the file of s: the start of every line and the
\* end of the file
Boundaries(s) == {StartOfLine(s.file, i) : i \in 1..(Len(s.file) + 1)}

\* the lines of the file of s at or after offset whose key is query or larger
AtOrAfter(s, query, offset) ==
    {i \in 1..Len(s.file) :
        StartOfLine(s.file, i) >= offset /\ loads(s.file[i])[1] >= query}

\* r is what search(query, offset) on s is to give: the first record at or
\* after offset with the key query when there is one, not-found otherwise,
\* and nothing is read beyond the first record whose key is query or larger
SearchedAsClaimed(r, s, query, offset) ==
    IF AtOrAfter(s, query, offset) = {}
    THEN r.entry = NoEntry /\ reached_eof(r.segment)
    ELSE LET m == CHOOSE i \in AtOrAfter(s, query, offset) :
                      \A j \in AtOrAfter(s, query, offset) : i <= j
         IN /\ r.entry = (IF loads(s.file[m])[1] = query THEN loads(s.file[m]) ELSE NoEntry)
            /\ r.segment.pos = StartOfLine(s.file, m + 1)

\* the keys of the lines of a file are in ascending order
FileAscending(file) ==
    \A i \in 1..(Len(file) - 1) : loads(file[i])[1] <= loads(file[i + 1])[1]

\* C27: on a segment whose records are in ascending key order, search(q, off)
\* with off a record boundary returns the record with key q exactly when
\* there is one at or after off, not-found otherwise, and stops reading at
\* the first record whose key is strictly greater than q; for Segment.search
\* of jump_db.py and of sst_engine.py.
C27_SearchStopsEarly ==
    (seg.mode = "r" /\ FileAscending(seg.file)) =>
        \A query \in SegmentKeys, offset \in Boundaries(seg) :
            /\ SearchedAsClaimed(SegmentSearch(seg, query, offset), seg, query, offset)
            /\ SearchedAsClaimed(sst_SegmentSearch(seg, query, offset), seg, query, offset)

\* C28: get and contains leave the memtable, the segment list, the files,
\* the sparse index and the Bloom filter as they were; a delete that succeeds
\* changes the memtable entry of its key and nothing else: no flush, no
\* compaction, the segment list, the files, the sparse index and the Bloom
\* filter unchanged, also when the memtable is at capacity.
C28_ReadOnlyAndDeleteFrame ==
    \A k \in Keys :
        /\ get_call(db_state, k).db = db_state
        /\ contains_call(db_state, k).db = db_state
        /\ LET r == delitem_call(db_state, k)
           IN ~r.raised =>
                 /\ r.db.immutable_segments = immutable_segments
                 /\ r.db.disk = disk
                 /\ r.db.clock = clock
                 /\ r.db.sparse_memory_index = sparse_memory_index
                 /\ r.db.bloom_filter = bloom_filter
                 /\ DOMAIN r.db.mem_table \ {k} = DOMAIN mem_table \ {k}
                 /\ \A j \in DOMAIN mem_table \ {k} : r.db.mem_table[j] = mem_table[j]

\* a delete has just succeeded on a memtable at capacity, the segments as
\* they were, and a get that reads a key from a segment leaves the engine
\* as it is
C28_Witness ==
    /\ capacity_reached(mem_table, max_inmemory_size)
    /\ immutable_segments # <<>>
    /\ \E k \in deleted : k \in DOMAIN mem_table /\ mem_table[k] = TOMBSTONE
    /\ \E j \in Keys :
          /\ j \notin DOMAIN mem_table
          /\ get_call(db_state, j).value # None
          /\ get_call(db_state, j).db = db_state
          /\ contains_call(db_state, j).value

\* C29: immediately after a compaction no key occurs in more than one
\* segment of the segment list, and of any two segments of the list every
\* key of the earlier one is strictly smaller than every key of the later
\* one.
C29_CompactedSegmentsDisjoint ==
    \A key \in Keys :
        WouldCompact(key) =>
            LET after == AfterCompaction(key)
            IN /\ \A k \in Keys : Cardinality(SegmentsStoringIn(after, k)) <= 1
               /\ \A i, j \in 1..Len(after.immutable_segments) :
                     i < j =>
                         \A a \in KeysOf(after.disk[after.immutable_segments[i]]) :
                             \A b \in KeysOf(after.disk[after.immutable_segments[j]]) :
                                 a < b

\* a put has just returned whose compaction wrote two keys into two
\* segments of one record each, the smaller key in the earlier segment (the
\* file merge created last is empty and not in the list)
C29_Witness ==
    /\ Compacted
    /\ segment_size = 1
    /\ Len(immutable_segments) = 2
    /\ Len(disk[immutable_segments[1]]) = 1
    /\ Len(disk[immutable_segments[2]]) = 1
    /\ disk[immutable_segments[1]][1][1] < disk[immutable_segments[2]][1][1]
    /\ (clock - 1) \in DOMAIN disk \ ListedSegments
    /\ disk[clock - 1] = <<>>
    /\ \E k \in DOMAIN ref : ref[k] = nops /\ mem_table = (k :> nops)

\* C30: whenever a recovery has completed or a put or a delete has returned,
\* an empty sparse index means that no segment of the list holds a record:
\* the early return of get on an empty index hides no key that a segment
\* stores.
C30_EmptyIndexEmptySegments ==
    DOMAIN sparse_memory_index = {} =>
        /\ \A i \in 1..Len(immutable_segments) : disk[immutable_segments[i]] = <<>>
        /\ \A k \in Keys : SegmentsStoring(k) = {}

\* the flush of a memtable of tombstones has appended a segment without
\* records: the list is not empty, the index is, and get returns null early
C30_Witness ==
    /\ nops > 0
    /\ immutable_segments # <<>>
    /\ DOMAIN sparse_memory_index = {}
    /\ disk[immutable_segments[1]] = <<>>
    /\ \E k \in bloom_filter : k \notin DOMAIN mem_table /\ get(k) = None

\* C31: after any put has returned, every segment file the engine has
\* created in its directory is in the segment list or has been deleted: a
\* compaction leaves no other file behind, so a new DB constructed on the
\* same directory has the segment_count of the running engine.
C31_NoOrphanFiles ==
    /\ DOMAIN disk = ListedSegments
    /\ Len(Recovered.immutable_segments) = Len(immutable_segments)

\* C32: after any sequence of puts and deletes every segment of the segment
\* list holds at least one record, so segment_count counts no empty segment,
\* also after the flush of a memtable of tombstones and after a compaction
\* whose merge stream is empty.
C32_NoEmptySegmentInList ==
    \A i \in 1..Len(immutable_segments) : Len(disk[immutable_segments[i]]) >= 1

====
